---------------------------- MODULE Spec2Model ----------------------------
(***************************************************************************)
(* Model of client_pygame/display/display.py (class Display).              *)
(*                                                                         *)
(* The renderer is a caller-driven object: an external game loop calls one *)
(* of the paint entry points per frame.  The state is the Display's only   *)
(* mutable field (background_color), the Engine's object mapping and      *)
(* player metadata, the Control's display options, and the draw calls and  *)
(* log lines the latest paint call issued.                                 *)
(*                                                                         *)
(* Units: game-unit lengths (x, y, w, h) are kept in tenths, so that the   *)
(* literals 1.8 and 3.5 of the source are the integers 18 and 35.  Health  *)
(* values are floats in the program; they are kept in tenths too, and the  *)
(* float expression (health / max_health) * 10 is computed exactly.        *)
(* Text is a sequence of string pieces; a health bar is a sequence of      *)
(* one-character pieces.                                                   *)
(***************************************************************************)
EXTENDS Integers, Sequences, FiniteSets, TLC

VARIABLES
    background_color,   \* Display.background_color
    engine,             \* the Engine: object mapping, ids, names
    control,            \* the Control: show_info, player_image, background_color
    calls,              \* draw calls issued on the surface by the latest paint call
    log,                \* lines printed by the latest paint call
    op,                 \* the paint entry point that ran last ("none": no frame yet)
    pre                 \* background_color, engine and control as that call received them

vars == <<background_color, engine, control, calls, log, op, pre>>

----------------------------------------------------------------------------
(* Bounds of the model *)

ScreenWidth == 8
ScreenHeight == 6
MaxHealth == 10
MaxMaxHealth == 8
MaxSpeed == 1

(* Program constants *)

FontSize == 12
BarWidth == 10
MissileSize == 18
TextDx == 20
TextDy == 35
StatusX == 20

TextColor == <<255, 255, 255>>
WallColor == <<150, 75, 0>>
HealthColor == <<200, 0, 0>>
DefaultBackground == <<40, 199, 15>>

Chr156 == "chr(156)"

\* A Control without a background_color attribute (hasattr is false).
NoAttr == <<>>

----------------------------------------------------------------------------
(* Python helpers *)

\* A padding that also cuts the string down to the width.
LjustTruncating(s, width, fillchar) ==
    IF width <= 0 THEN <<>>
    ELSE [i \in 1..width |-> IF i <= Len(s) THEN s[i] ELSE fillchar]

\* str.ljust(width, fillchar): pads on the right, never truncates.
Ljust(s, width, fillchar) ==
    IF width <= Len(s) THEN s
    ELSE s \o [i \in 1..(width - Len(s)) |-> fillchar]

\* The conversion to int without the rounding.
TruncDiv(num, den) ==
    IF num >= 0 THEN num \div den ELSE -((-num) \div den)

\* int(round(x)) for x = num/den, den > 0: Python 2 rounds halves away from zero.
RoundDiv(num, den) ==
    IF num >= 0 THEN (2 * num + den) \div (2 * den)
    ELSE -((2 * (-num) + den) \div (2 * den))

\* "%.1f" of a value kept in tenths.
Fmt1(v) ==
    IF v >= 0 THEN ToString(v \div 10) \o "." \o ToString(v % 10)
    ELSE "-" \o ToString((-v) \div 10) \o "." \o ToString((-v) % 10)

\* BaseDisplay.obj_to_rect: the object's position and size.
ObjToRect(obj) == <<obj.x, obj.y, obj.w, obj.h>>

\* engine.get_object(oid): the mapped object, or no object.
HasObject(objs, oid) == \E i \in 1..Len(objs) : objs[i].oid = oid
GetObject(objs, oid) == objs[CHOOSE i \in 1..Len(objs) : objs[i].oid = oid]

----------------------------------------------------------------------------
(* Draw calls.  src is the oid of the object being painted (0: none).      *)

Fill(color, rect) == [fn |-> "fill", color |-> color, rect |-> rect, src |-> 0]
DrawRect(color, rect, src) == [fn |-> "rect", color |-> color, rect |-> rect, src |-> src]
Blit(image, rect, src) == [fn |-> "blit", image |-> image, rect |-> rect, src |-> src]
TextCenter(s, color, x, y, src) ==
    [fn |-> "text_center", text |-> s, color |-> color, pos |-> <<x, y>>, src |-> src]
TextLeft(s, color, x, y) ==
    [fn |-> "text_left", text |-> s, color |-> color, pos |-> <<x, y>>, src |-> 0]

ScreenRect == <<0, 0, ScreenWidth, ScreenHeight>>

\* What painting one object yields: draw calls, log lines, the object after.
Painted(cs, ls, obj) == [calls |-> cs, log |-> ls, obj |-> obj]

----------------------------------------------------------------------------
(* Per-type painters *)

\* lines 229-234 and 261-266
HealthBar(health, max_health) ==
    LET pct == RoundDiv(health * 10, max_health)
        filled == Ljust(<<>>, pct, Chr156)
        padded == Ljust(filled, BarWidth, " ")
    IN  <<"|">> \o padded \o <<"|">>

\* A selection that looks at the vertical direction first.
EnemySpriteVerticalFirst(dx, dy) ==
    IF dy > 0 THEN "enemy3.png"
    ELSE IF dx > 0 THEN "enemy1.png"
    ELSE IF dx < 0 THEN "enemy2.png"
    ELSE "enemy4.png"

\* lines 217-224
NpcSprite(dx, dy) ==
    IF dx > 0 THEN "npc3.png"
    ELSE IF dx < 0 THEN "npc4.png"
    ELSE IF dy > 0 THEN "npc1.png"
    ELSE "npc2.png"

\* lines 275-282
EnemySprite(dx, dy) ==
    IF dx > 0 THEN "enemy1.png"
    ELSE IF dx < 0 THEN "enemy2.png"
    ELSE IF dy > 0 THEN "enemy3.png"
    ELSE "enemy4.png"

paint_wall(obj) ==
    Painted(<<DrawRect(WallColor, ObjToRect(obj), obj.oid)>>, <<>>, obj)

paint_npc(obj) ==
    LET sprite == IF obj.alive
                  THEN <<Blit(NpcSprite(obj.dx, obj.dy), ObjToRect(obj), obj.oid)>>
                  ELSE <<>>
        health == IF obj.alive
                  THEN HealthBar(obj.health, obj.max_health)
                  ELSE <<"LEVEL UP!">>
    IN  Painted(sprite \o <<TextCenter(health, HealthColor,
                                       obj.x + TextDx, obj.y + TextDy, obj.oid)>>,
                <<>>, obj)

\* A missile painter that resizes before it looks at liveness.
paint_missile_resize_first(obj) ==
    LET sized == [obj EXCEPT !.w = MissileSize, !.h = MissileSize]
    IN  IF obj.alive
        THEN Painted(<<Blit("Energy-Ball.png", ObjToRect(sized), obj.oid)>>, <<>>, sized)
        ELSE Painted(<<>>, <<>>, sized)

paint_missile(obj) ==
    IF obj.alive
    THEN LET sized == [obj EXCEPT !.w = MissileSize, !.h = MissileSize]
         IN  Painted(<<Blit("Energy-Ball.png", ObjToRect(sized), obj.oid)>>, <<>>, sized)
    ELSE Painted(<<>>, <<>>, obj)

\* A player painter that blits whether or not the player is alive.
paint_player_always_blit(eng, ctl, obj) ==
    LET health == HealthBar(obj.health, obj.max_health)
        image == IF obj.oid = eng.player_oid
                 THEN ctl.player_image
                 ELSE EnemySprite(obj.dx, obj.dy)
    IN  Painted(<<TextCenter(health, HealthColor,
                             obj.x + TextDx, obj.y + TextDy, obj.oid),
                  Blit(image, ObjToRect(obj), obj.oid)>>,
                <<>>, obj)

\* A player painter that follows the npc's rule for the overlay text.
paint_player_level_up(eng, ctl, obj) ==
    LET health == IF obj.alive
                  THEN HealthBar(obj.health, obj.max_health)
                  ELSE <<"LEVEL UP!">>
        image == IF obj.oid = eng.player_oid
                 THEN ctl.player_image
                 ELSE EnemySprite(obj.dx, obj.dy)
        sprite == IF obj.alive
                  THEN <<Blit(image, ObjToRect(obj), obj.oid)>>
                  ELSE <<>>
    IN  Painted(<<TextCenter(health, HealthColor,
                             obj.x + TextDx, obj.y + TextDy, obj.oid)>> \o sprite,
                <<>>, obj)

paint_player(eng, ctl, obj) ==
    LET health == HealthBar(obj.health, obj.max_health)
        image == IF obj.oid = eng.player_oid
                 THEN ctl.player_image
                 ELSE EnemySprite(obj.dx, obj.dy)
        sprite == IF obj.alive
                  THEN <<Blit(image, ObjToRect(obj), obj.oid)>>
                  ELSE <<>>
    IN  Painted(<<TextCenter(health, HealthColor,
                             obj.x + TextDx, obj.y + TextDy, obj.oid)>> \o sprite,
                <<>>, obj)

\* A dispatch that asks is_npc before is_wall.
PaintObjectNpcFirst(eng, ctl, obj) ==
    IF obj.is_npc THEN paint_npc(obj)
    ELSE IF obj.is_wall THEN paint_wall(obj)
    ELSE IF obj.is_missile THEN paint_missile(obj)
    ELSE IF obj.is_player THEN paint_player(eng, ctl, obj)
    ELSE Painted(<<>>, <<[line |-> "Unexpected object type", src |-> obj.oid]>>, obj)

\* lines 163-172: the dispatch on the type predicates
PaintObject(eng, ctl, obj) ==
    IF obj.is_wall THEN paint_wall(obj)
    ELSE IF obj.is_npc THEN paint_npc(obj)
    ELSE IF obj.is_missile THEN paint_missile(obj)
    ELSE IF obj.is_player THEN paint_player(eng, ctl, obj)
    ELSE Painted(<<>>, <<[line |-> "Unexpected object type", src |-> obj.oid]>>, obj)

\* lines 160-172: the loop over the mapping, in its iteration order
RECURSIVE PaintObjects(_, _, _)
PaintObjects(eng, ctl, objs) ==
    IF objs = <<>> THEN [calls |-> <<>>, log |-> <<>>, objs |-> <<>>]
    ELSE LET p == PaintObject(eng, ctl, Head(objs))
             rest == PaintObjects(eng, ctl, Tail(objs))
         IN  [calls |-> p.calls \o rest.calls,
              log |-> p.log \o rest.log,
              objs |-> <<p.obj>> \o rest.objs]

----------------------------------------------------------------------------
(* Status overlay.  A status line's y is kept relative to the top of the   *)
(* status bar (self.height - STATUS_BAR_HEIGHT).                           *)

StatusLine(label, name, obj, row) ==
    TextLeft(<<label, name, "  HP: ", Fmt1(obj.health), "  XP: ", Fmt1(obj.experience),
               " Moving: ", Fmt1(obj.move_mana), " Missiles: ", Fmt1(obj.missile_mana)>>,
             TextColor, StatusX, (row * FontSize * 10) \div 15)

\* A status overlay that looks the opponent up under the player's id.
paint_game_status_same_oid(eng) ==
    LET mine == IF eng.player_oid > 0 /\ HasObject(eng.objs, eng.player_oid)
                THEN <<StatusLine("Me: ", eng.name,
                                  GetObject(eng.objs, eng.player_oid), 3)>>
                ELSE <<>>
        theirs == IF eng.player_oid > 0 /\ HasObject(eng.objs, eng.player_oid)
                  THEN <<StatusLine("Opponent: ", eng.opponent_name,
                                    GetObject(eng.objs, eng.player_oid), 6)>>
                  ELSE <<>>
    IN  mine \o theirs

paint_game_status(eng) ==
    LET mine == IF eng.player_oid > 0 /\ HasObject(eng.objs, eng.player_oid)
                THEN <<StatusLine("Me: ", eng.name,
                                  GetObject(eng.objs, eng.player_oid), 3)>>
                ELSE <<>>
        theirs == IF eng.opponent_oid > 0 /\ HasObject(eng.objs, eng.opponent_oid)
                  THEN <<StatusLine("Opponent: ", eng.opponent_name,
                                    GetObject(eng.objs, eng.opponent_oid), 6)>>
                  ELSE <<>>
    IN  mine \o theirs

----------------------------------------------------------------------------
(* Phase paint operations: each yields the frame's draw calls and log, and *)
(* the background colour and object mapping it leaves behind.              *)

Frame(cs, ls, bg, objs) == [calls |-> cs, log |-> ls, bg |-> bg, objs |-> objs]

\* A renderer that never adopts the Control's colour.
KeepBackground(bg, ctl) == bg

\* lines 157-158
NextBackground(bg, ctl) ==
    IF ctl.background_color # NoAttr /\ ctl.background_color # bg
    THEN ctl.background_color
    ELSE bg

paint_pregame_frame(bg, eng, ctl) ==
    Frame(<<Fill(bg, ScreenRect),
            TextCenter(<<"Press 'm' for multi player, 's' for single player,">>,
                       TextColor, ScreenWidth \div 2, ScreenHeight \div 2, 0),
            TextCenter(<<"'t' for tournament, 'esc' to quit.">>,
                       TextColor, ScreenWidth \div 2,
                       ScreenHeight \div 2 + (3 * FontSize) \div 2, 0),
            Blit("TitlePage.png", ScreenRect, 0)>>,
          <<>>, bg, eng.objs)

paint_waiting_frame(bg, eng, ctl) ==
    Frame(<<Fill(bg, ScreenRect),
            TextCenter(<<"Loading game...">>,
                       TextColor, ScreenWidth \div 2, ScreenHeight \div 2, 0)>>,
          <<>>, bg, eng.objs)

paint_game_frame(bg, eng, ctl) ==
    LET painted == PaintObjects(eng, ctl, eng.objs)
        after == [eng EXCEPT !.objs = painted.objs]
        status == IF ctl.show_info THEN paint_game_status(after) ELSE <<>>
    IN  Frame(<<Fill(bg, ScreenRect)>> \o painted.calls \o status,
              painted.log, NextBackground(bg, ctl), painted.objs)

\* A game-over frame that draws its message under the game.
paint_game_over_text_first(bg, eng, ctl) ==
    LET game == paint_game_frame(bg, eng, ctl)
    IN  Frame(<<TextCenter(<<"Game Over (", eng.winner_name, " wins!)">>,
                           TextColor, ScreenWidth \div 2, ScreenHeight \div 2, 0)>>
                \o game.calls,
              game.log, game.bg, game.objs)

paint_game_over_frame(bg, eng, ctl) ==
    LET game == paint_game_frame(bg, eng, ctl)
    IN  Frame(game.calls \o
                <<TextCenter(<<"Game Over (", eng.winner_name, " wins!)">>,
                             TextColor, ScreenWidth \div 2, ScreenHeight \div 2, 0)>>,
              game.log, game.bg, game.objs)

----------------------------------------------------------------------------
(* The objects, engines and controls the environment supplies.             *)

PlayerImages == {"player.png"}
OverrideColors == {<<0, 0, 0>>, <<255, 255, 255>>}
Names == {"me", "them"}
Oids == {1, 2}

\* is_wall, is_npc, is_missile, is_player as the object answers them
Flags(wall, npc, missile, player) ==
    [is_wall |-> wall, is_npc |-> npc, is_missile |-> missile, is_player |-> player]
AllFlags == {Flags(a, b, c, d) : a \in BOOLEAN, b \in BOOLEAN, c \in BOOLEAN, d \in BOOLEAN}
OneKindFlags == {f \in AllFlags :
                   Cardinality({k \in {"w", "n", "m", "p"} :
                                  \/ k = "w" /\ f.is_wall
                                  \/ k = "n" /\ f.is_npc
                                  \/ k = "m" /\ f.is_missile
                                  \/ k = "p" /\ f.is_player}) <= 1}
LivingFlags == {Flags(FALSE, TRUE, FALSE, FALSE), Flags(FALSE, FALSE, FALSE, TRUE)}

\* A game object as the engine creates it: one game unit wide and high.
GameObject(oid, f, alive, dx, dy, health, max_health) ==
    [oid |-> oid,
     is_wall |-> f.is_wall, is_npc |-> f.is_npc,
     is_missile |-> f.is_missile, is_player |-> f.is_player,
     alive |-> alive,
     x |-> 10 * oid, y |-> 30 * oid, w |-> 10, h |-> 10,
     dx |-> dx, dy |-> dy,
     health |-> health, max_health |-> max_health,
     experience |-> 5, move_mana |-> 25, missile_mana |-> 100]

Snapshot == [bg |-> background_color, engine |-> engine, control |-> control]

NoFrame ==
    /\ calls' = <<>>
    /\ log' = <<>>
    /\ op' = "none"
    /\ pre' = [bg |-> background_color', engine |-> engine', control |-> control']

----------------------------------------------------------------------------
(* Environment: the engine and the control change between frames.          *)

EngineAddObject(objects) ==
    \E o \in objects :
        /\ ~HasObject(engine.objs, o.oid)
        /\ engine' = [engine EXCEPT !.objs = Append(@, o)]
        /\ UNCHANGED <<background_color, control>>
        /\ NoFrame

EngineRemoveObject ==
    \E i \in 1..Len(engine.objs) :
        /\ engine' = [engine EXCEPT !.objs =
                         SubSeq(@, 1, i - 1) \o SubSeq(@, i + 1, Len(@))]
        /\ UNCHANGED <<background_color, control>>
        /\ NoFrame

EngineSetPlayers(oids) ==
    \E p \in oids, q \in oids :
        /\ engine' = [engine EXCEPT !.player_oid = p, !.opponent_oid = q]
        /\ UNCHANGED <<background_color, control>>
        /\ NoFrame

EngineSetWinner ==
    \E n \in Names :
        /\ engine' = [engine EXCEPT !.winner_name = n]
        /\ UNCHANGED <<background_color, control>>
        /\ NoFrame

ControlSetBackground ==
    \E c \in OverrideColors \cup {DefaultBackground} :
        /\ control' = [control EXCEPT !.background_color = c]
        /\ UNCHANGED <<background_color, engine>>
        /\ NoFrame

ControlToggleInfo ==
    /\ control' = [control EXCEPT !.show_info = ~@]
    /\ UNCHANGED <<background_color, engine>>
    /\ NoFrame

----------------------------------------------------------------------------
(* The paint entry points, as the game loop calls them.                    *)

Paint(name, frame) ==
    /\ op' = name
    /\ pre' = Snapshot
    /\ calls' = frame.calls
    /\ log' = frame.log
    /\ background_color' = frame.bg
    /\ engine' = [engine EXCEPT !.objs = frame.objs]
    /\ UNCHANGED control

paint_pregame == Paint("paint_pregame", paint_pregame_frame(background_color, engine, control))

paint_waiting_for_game ==
    Paint("paint_waiting_for_game", paint_waiting_frame(background_color, engine, control))

paint_game == Paint("paint_game", paint_game_frame(background_color, engine, control))

paint_game_over ==
    Paint("paint_game_over", paint_game_over_frame(background_color, engine, control))

\* lines 192-196: draws nothing, changes nothing
process_event ==
    /\ op' = "process_event"
    /\ pre' = Snapshot
    /\ calls' = <<>>
    /\ log' = <<>>
    /\ UNCHANGED <<background_color, engine, control>>

----------------------------------------------------------------------------
(* Specification of the frame loop.                                        *)

InitEngine ==
    [objs |-> <<>>, player_oid |-> 0, opponent_oid |-> 0,
     name |-> "me", opponent_name |-> "them", winner_name |-> "me"]

InitControl ==
    [show_info |-> FALSE, player_image |-> "player.png", background_color |-> NoAttr]

Init ==
    /\ background_color = DefaultBackground
    /\ engine = [InitEngine EXCEPT !.player_oid = 1, !.opponent_oid = 2]
    /\ control \in {InitControl, [InitControl EXCEPT !.background_color = DefaultBackground]}
    /\ calls = <<>>
    /\ log = <<>>
    /\ op = "none"
    /\ pre = Snapshot

FrameObjects ==
    {GameObject(oid, f, alive, 0, 1, 1, 2) :
        oid \in Oids, f \in OneKindFlags, alive \in BOOLEAN}

Next ==
    \/ EngineAddObject(FrameObjects)
    \/ EngineRemoveObject
    \/ EngineSetWinner
    \/ ControlSetBackground
    \/ ControlToggleInfo
    \/ paint_pregame
    \/ paint_waiting_for_game
    \/ paint_game
    \/ paint_game_over
    \/ process_event

Spec == Init /\ [][Next]_vars

----------------------------------------------------------------------------
(* Specification of the object dispatch: objects answering the type        *)
(* predicates in every combination, alive or dead.                         *)

InitWith(eng, ctl) ==
    /\ background_color = DefaultBackground
    /\ engine = eng
    /\ control = ctl
    /\ calls = <<>>
    /\ log = <<>>
    /\ op = "none"
    /\ pre = Snapshot

DispatchObjects ==
    {GameObject(oid, f, alive, 0, 1, 1, 2) :
        oid \in Oids, f \in AllFlags, alive \in BOOLEAN}

InitDispatch ==
    InitWith([InitEngine EXCEPT !.player_oid = 1, !.opponent_oid = 2], InitControl)

NextDispatch ==
    \/ EngineAddObject(DispatchObjects)
    \/ EngineRemoveObject
    \/ ControlToggleInfo
    \/ paint_game
    \/ paint_game_over

SpecDispatch == InitDispatch /\ [][NextDispatch]_vars

----------------------------------------------------------------------------
(* Specification of the health bar: one npc or player whose health and     *)
(* maximum health range over the bounds, health above the maximum and      *)
(* below zero included.                                                    *)

BarObjects ==
    {GameObject(1, f, alive, 0, 1, health, max_health) :
        f \in LivingFlags, alive \in BOOLEAN,
        health \in -MaxHealth..MaxHealth, max_health \in 1..MaxMaxHealth}

InitBar == InitWith(InitEngine, InitControl)

NextBar ==
    \/ EngineAddObject(BarObjects)
    \/ EngineRemoveObject
    \/ paint_game
    \/ paint_game_over

SpecBar == InitBar /\ [][NextBar]_vars

----------------------------------------------------------------------------
(* Specification of the sprite selection: one npc or player moving in      *)
(* every direction, the player being the local one or not.                 *)

SpriteObjects ==
    {GameObject(1, f, alive, dx, dy, 1, 2) :
        f \in LivingFlags, alive \in BOOLEAN,
        dx \in -MaxSpeed..MaxSpeed, dy \in -MaxSpeed..MaxSpeed}

InitSprite == InitWith(InitEngine, InitControl)

NextSprite ==
    \/ EngineAddObject(SpriteObjects)
    \/ EngineRemoveObject
    \/ EngineSetPlayers({1, 2})
    \/ paint_game
    \/ paint_game_over

SpecSprite == InitSprite /\ [][NextSprite]_vars

----------------------------------------------------------------------------
(* Specification of the status overlay: player and opponent ids that are   *)
(* not positive, that resolve, and that resolve to nothing.                *)

StatusOids == {-1, 0, 1, 2, 3}

StatusObjects ==
    {GameObject(oid, Flags(FALSE, FALSE, FALSE, TRUE), alive, 0, 1, 1, 2) :
        oid \in Oids, alive \in BOOLEAN}

InitStatus == InitWith(InitEngine, InitControl)

NextStatus ==
    \/ EngineAddObject(StatusObjects)
    \/ EngineRemoveObject
    \/ EngineSetPlayers(StatusOids)
    \/ ControlToggleInfo
    \/ paint_game
    \/ paint_game_over

SpecStatus == InitStatus /\ [][NextStatus]_vars

----------------------------------------------------------------------------
(* Vocabulary of the properties.                                           *)

PaintOps == {"paint_pregame", "paint_waiting_for_game", "paint_game", "paint_game_over"}
GameOps == {"paint_game", "paint_game_over"}

\* The draw calls and log lines the latest frame issued for one object.
CallsOf(oid) == SelectSeq(calls, LAMBDA c : c.src = oid)
LogOf(oid) == SelectSeq(log, LAMBDA l : l.src = oid)
BlitsOf(oid) == SelectSeq(calls, LAMBDA c : c.src = oid /\ c.fn = "blit")
TextsOf(oid) == SelectSeq(calls, LAMBDA c : c.src = oid /\ c.fn = "text_center")
StatusLines == SelectSeq(calls, LAMBDA c : c.fn = "text_left")

\* The objects the latest call received, and what they are painted as.
PreObjs == pre.engine.objs
AsWall(o) == o.is_wall
AsNpc(o) == ~o.is_wall /\ o.is_npc
AsMissile(o) == ~o.is_wall /\ ~o.is_npc /\ o.is_missile
AsPlayer(o) == ~o.is_wall /\ ~o.is_npc /\ ~o.is_missile /\ o.is_player
AsNothing(o) == ~o.is_wall /\ ~o.is_npc /\ ~o.is_missile /\ ~o.is_player

\* The Control the latest call received overrides the background colour.
Overrides ==
    /\ pre.control.background_color # NoAttr
    /\ pre.control.background_color # pre.bg

\* round(10 * health / max_health) for health >= 0: the integer nearest to
\* the ratio's tenfold, the upper one of two equally near.
NearestUp(health, max_health) ==
    CHOOSE n \in 0..(10 * health + 1) :
        /\ 20 * health - max_health < 2 * n * max_health
        /\ 2 * n * max_health <= 20 * health + max_health

\* round(10 * health / max_health): halves go away from zero.
Tenths(health, max_health) ==
    IF health >= 0 THEN NearestUp(health, max_health)
    ELSE -NearestUp(-health, max_health)

Max(a, b) == IF a >= b THEN a ELSE b

\* text is '|', then n fill characters, then spaces up to width inner, then '|'.
BarOf(text, n, inner) ==
    /\ Len(text) = inner + 2
    /\ text[1] = "|"
    /\ text[inner + 2] = "|"
    /\ \A j \in 1..inner : text[j + 1] = IF j <= n THEN Chr156 ELSE " "

FillCount(text) == Cardinality({j \in 1..Len(text) : text[j] = Chr156})

----------------------------------------------------------------------------
(* Properties of the frame loop (Spec).                                    *)

\* C1, as stated: when paint_game receives a Control whose background_color
\* differs from the renderer's, that same call fills the surface with the
\* new colour.
C1_SameCallFillsNew ==
    (op \in GameOps /\ Overrides) => calls[1].color = pre.control.background_color

\* C1, amended: every paint call fills the surface with the colour the
\* renderer holds when the call starts; a paint_game (or paint_game_over)
\* call whose Control carries a different background_color stores that colour
\* after its fill, and no other step changes the stored colour.  So the
\* override shows from the next paint call on, until changed again.
C1_OverrideShowsFromNextCall ==
    [][ /\ op' \in PaintOps => calls'[1] = Fill(background_color, ScreenRect)
        /\ background_color' =
              IF /\ op' \in GameOps
                 /\ control.background_color # NoAttr
                 /\ control.background_color # background_color
              THEN control.background_color
              ELSE background_color ]_vars

\* A paint_game call that meets a second override: it fills with the first
\* override's colour and stores the second.
C1_Witness ==
    /\ op = "paint_game"
    /\ Overrides
    /\ pre.bg # DefaultBackground
    /\ calls[1].color = pre.bg
    /\ background_color = pre.control.background_color

\* C5: paint_game_over issues exactly the draw calls of paint_game on the
\* same renderer colour, engine and control, then one centered text
\* "Game Over (<winner> wins!)" at the centre of the screen; it logs, updates
\* the background colour and resizes missiles as paint_game does.
C5_GameOverIsGameThenText ==
    op = "paint_game_over" =>
        LET game == paint_game_frame(pre.bg, pre.engine, pre.control)
        IN  /\ calls = game.calls \o
                  <<TextCenter(<<"Game Over (", pre.engine.winner_name, " wins!)">>,
                               TextColor, ScreenWidth \div 2, ScreenHeight \div 2, 0)>>
            /\ log = game.log
            /\ background_color = game.bg
            /\ engine.objs = game.objs

\* A game-over frame over a game with objects, a status overlay and an
\* override, won by the opponent.
C5_Witness ==
    /\ op = "paint_game_over"
    /\ Len(PreObjs) = 2
    /\ pre.control.show_info
    /\ Overrides
    /\ pre.engine.winner_name = "them"
    /\ Len(calls) > 4
    /\ calls[Len(calls)].text = <<"Game Over (", "them", " wins!)">>

\* C10: a paint call leaves the Control, the engine's ids and names and the
\* keys and order of the object mapping as they were; it leaves every object
\* as it was, except that paint_game and paint_game_over set the width and
\* height of each missile that is alive to the fixed size.  A dead missile is
\* neither resized nor drawn.
C10_OnlyLivingMissilesResized ==
    op # "none" =>
        /\ control = pre.control
        /\ [engine EXCEPT !.objs = <<>>] = [pre.engine EXCEPT !.objs = <<>>]
        /\ Len(engine.objs) = Len(PreObjs)
        /\ \A i \in 1..Len(PreObjs) :
              LET o == PreObjs[i]
              IN  /\ engine.objs[i] =
                        IF op \in GameOps /\ AsMissile(o) /\ o.alive
                        THEN [o EXCEPT !.w = MissileSize, !.h = MissileSize]
                        ELSE o
                  /\ (AsMissile(o) /\ ~o.alive) => CallsOf(o.oid) = <<>>

\* A frame with a living missile at the engine's size, which is resized, and
\* a dead one, which is not.
C10_Witness ==
    /\ op \in GameOps
    /\ \E i, j \in 1..Len(PreObjs) :
          /\ AsMissile(PreObjs[i]) /\ PreObjs[i].alive
          /\ PreObjs[i].w # MissileSize
          /\ engine.objs[i].w = MissileSize /\ engine.objs[i].h = MissileSize
          /\ AsMissile(PreObjs[j]) /\ ~PreObjs[j].alive
          /\ engine.objs[j] = PreObjs[j]

----------------------------------------------------------------------------
(* Properties of the object dispatch (SpecDispatch).                       *)

\* C2: paint_game paints each object of the mapping with one painter, that of
\* the first predicate the object answers true to in the order is_wall,
\* is_npc, is_missile, is_player; an object answering false to all four gets
\* no draw call and one log line, and the objects after it are painted.
C2_FirstTruePredicatePaints ==
    op \in GameOps =>
        \A i \in 1..Len(PreObjs) :
            LET o == PreObjs[i]
            IN  /\ AsWall(o) => CallsOf(o.oid) = paint_wall(o).calls
                /\ AsNpc(o) => CallsOf(o.oid) = paint_npc(o).calls
                /\ AsMissile(o) => CallsOf(o.oid) = paint_missile(o).calls
                /\ AsPlayer(o) =>
                      CallsOf(o.oid) = paint_player(pre.engine, pre.control, o).calls
                /\ AsNothing(o) => CallsOf(o.oid) = <<>> /\ Len(LogOf(o.oid)) = 1
                /\ ~AsNothing(o) => LogOf(o.oid) = <<>>

\* An unrecognised object first, then an object that is a wall and an npc
\* and a player at once, painted as a wall.
C2_Witness ==
    /\ op = "paint_game"
    /\ Len(PreObjs) = 2
    /\ AsNothing(PreObjs[1])
    /\ Len(log) = 1
    /\ PreObjs[2].is_wall /\ PreObjs[2].is_npc /\ PreObjs[2].is_player
    /\ Len(CallsOf(PreObjs[2].oid)) = 1
    /\ CallsOf(PreObjs[2].oid)[1].fn = "rect"

\* C3: no object that is not alive gets a blit call, in paint_game or in
\* paint_game_over; a wall is drawn as a rectangle, alive or not.
C3_DeadNeverBlitted ==
    op \in GameOps =>
        \A i \in 1..Len(PreObjs) :
            LET o == PreObjs[i]
            IN  /\ ~o.alive => BlitsOf(o.oid) = <<>>
                /\ AsWall(o) =>
                      CallsOf(o.oid) = <<DrawRect(WallColor, ObjToRect(o), o.oid)>>

\* A dead player, painted with its text and no sprite, and a dead wall,
\* drawn.
C3_Witness ==
    /\ op \in GameOps
    /\ \E i, j \in 1..Len(PreObjs) :
          /\ AsPlayer(PreObjs[i]) /\ ~PreObjs[i].alive
          /\ Len(CallsOf(PreObjs[i].oid)) = 1
          /\ AsWall(PreObjs[j]) /\ ~PreObjs[j].alive
          /\ Len(CallsOf(PreObjs[j].oid)) = 1

----------------------------------------------------------------------------
(* Properties of the health bar (SpecBar).                                 *)

\* The objects that get a health bar: a living npc, and a player.
HasBar(o) == (AsNpc(o) /\ o.alive) \/ AsPlayer(o)

\* C4: for health and max-health with a ratio in [0, 1], the health bar of a
\* living npc and of a player is '|', then round(ratio * 10) fill characters,
\* then spaces up to 10 characters, then '|': 12 characters.
C4_BarOfRatioInUnitRange ==
    op \in GameOps =>
        \A i \in 1..Len(PreObjs) :
            LET o == PreObjs[i]
            IN  (HasBar(o) /\ 0 <= o.health /\ o.health <= o.max_health) =>
                    /\ Len(TextsOf(o.oid)) = 1
                    /\ Len(TextsOf(o.oid)[1].text) = 12
                    /\ FillCount(TextsOf(o.oid)[1].text) = Tenths(o.health, o.max_health)
                    /\ BarOf(TextsOf(o.oid)[1].text, Tenths(o.health, o.max_health), 10)

\* A player at a quarter of its health: 2.5 rounds to 3 fill characters.
C4_Witness ==
    /\ op \in GameOps
    /\ \E i \in 1..Len(PreObjs) :
          /\ AsPlayer(PreObjs[i])
          /\ PreObjs[i].health > 0
          /\ 4 * PreObjs[i].health = PreObjs[i].max_health
          /\ FillCount(TextsOf(PreObjs[i].oid)[1].text) = 3
          /\ Len(TextsOf(PreObjs[i].oid)[1].text) = 12

\* C9, as stated: for any health and max-health, health above the maximum
\* and negative health included, the health bar has exactly 10 characters
\* between its delimiters, 0 to 10 of them fill characters.
C9_AlwaysTenWide ==
    op \in GameOps =>
        \A i \in 1..Len(PreObjs) :
            LET o == PreObjs[i]
            IN  HasBar(o) =>
                    /\ Len(TextsOf(o.oid)[1].text) = 12
                    /\ FillCount(TextsOf(o.oid)[1].text) \in 0..10

\* C9, amended: the padding keeps the filled count from going below 0, not
\* from going above 10.  With n = round(health / max_health * 10), the bar
\* has max(n, 0) fill characters, then spaces up to 10 characters, between
\* its delimiters: exactly 10 characters when n <= 10 (negative health
\* included), and n fill characters and no space when n > 10.
C9_BarPadsNeverCuts ==
    op \in GameOps =>
        \A i \in 1..Len(PreObjs) :
            LET o == PreObjs[i]
                n == Tenths(o.health, o.max_health)
            IN  HasBar(o) =>
                    /\ Len(TextsOf(o.oid)) = 1
                    /\ FillCount(TextsOf(o.oid)[1].text) = Max(n, 0)
                    /\ BarOf(TextsOf(o.oid)[1].text, n, Max(n, 10))

\* An npc with more health than its maximum: its bar is longer than 12.
C9_Witness ==
    /\ op \in GameOps
    /\ \E i \in 1..Len(PreObjs) :
          /\ AsNpc(PreObjs[i]) /\ PreObjs[i].alive
          /\ PreObjs[i].health > PreObjs[i].max_health
          /\ Len(TextsOf(PreObjs[i].oid)[1].text) > 12
          /\ FillCount(TextsOf(PreObjs[i].oid)[1].text) > 10

\* C8, as stated: paint_player draws one centered text, the health bar when
\* the player is alive and "LEVEL UP!" when it is not.
C8_DeadPlayerLevelsUp ==
    op \in GameOps =>
        \A i \in 1..Len(PreObjs) :
            LET o == PreObjs[i]
            IN  AsPlayer(o) =>
                    /\ Len(TextsOf(o.oid)) = 1
                    /\ (TextsOf(o.oid)[1].text = <<"LEVEL UP!">>) <=> ~o.alive

\* C8, amended: paint_player draws one centered text, which is the health
\* bar whether the player is alive or not (never "LEVEL UP!"), before the
\* sprite; only the sprite blit depends on liveness.  paint_npc draws the
\* health bar for a living npc and "LEVEL UP!" for a dead one.
C8_PlayerTextIsAlwaysBar ==
    op \in GameOps =>
        \A i \in 1..Len(PreObjs) :
            LET o == PreObjs[i]
                n == Tenths(o.health, o.max_health)
            IN  /\ AsPlayer(o) =>
                      /\ Len(TextsOf(o.oid)) = 1
                      /\ BarOf(TextsOf(o.oid)[1].text, n, Max(n, 10))
                      /\ CallsOf(o.oid)[1].fn = "text_center"
                      /\ Len(BlitsOf(o.oid)) = IF o.alive THEN 1 ELSE 0
                /\ AsNpc(o) =>
                      /\ Len(TextsOf(o.oid)) = 1
                      /\ (TextsOf(o.oid)[1].text = <<"LEVEL UP!">>) <=> ~o.alive
                      /\ Len(BlitsOf(o.oid)) = IF o.alive THEN 1 ELSE 0

\* A dead player, painted with a health bar and no sprite.
C8_Witness ==
    /\ op \in GameOps
    /\ \E i \in 1..Len(PreObjs) :
          /\ AsPlayer(PreObjs[i]) /\ ~PreObjs[i].alive
          /\ Len(CallsOf(PreObjs[i].oid)) = 1
          /\ CallsOf(PreObjs[i].oid)[1].fn = "text_center"
          /\ CallsOf(PreObjs[i].oid)[1].text[1] = "|"

----------------------------------------------------------------------------
(* Properties of the sprite selection (SpecSprite).                        *)

\* C6: a living npc and a living player that is not the local one get the
\* sprite the signs of (dx, dy) select: dx > 0 the first whatever dy is,
\* dx < 0 the second whatever dy is, dx = 0 and dy > 0 the third, dx = 0 and
\* dy <= 0 the fourth.  The living local player gets control.player_image
\* whatever (dx, dy) is.
C6_SpriteBySigns ==
    op \in GameOps =>
        \A i \in 1..Len(PreObjs) :
            LET o == PreObjs[i]
                local == o.oid = pre.engine.player_oid
                image == BlitsOf(o.oid)[1].image
            IN  o.alive =>
                    /\ Len(BlitsOf(o.oid)) = 1
                    /\ (AsNpc(o) /\ o.dx > 0) => image = "npc3.png"
                    /\ (AsNpc(o) /\ o.dx < 0) => image = "npc4.png"
                    /\ (AsNpc(o) /\ o.dx = 0 /\ o.dy > 0) => image = "npc1.png"
                    /\ (AsNpc(o) /\ o.dx = 0 /\ o.dy <= 0) => image = "npc2.png"
                    /\ (AsPlayer(o) /\ ~local /\ o.dx > 0) => image = "enemy1.png"
                    /\ (AsPlayer(o) /\ ~local /\ o.dx < 0) => image = "enemy2.png"
                    /\ (AsPlayer(o) /\ ~local /\ o.dx = 0 /\ o.dy > 0) =>
                          image = "enemy3.png"
                    /\ (AsPlayer(o) /\ ~local /\ o.dx = 0 /\ o.dy <= 0) =>
                          image = "enemy4.png"
                    /\ (AsPlayer(o) /\ local) => image = pre.control.player_image

\* An enemy player moving left and down the screen: the horizontal
\* direction wins.
C6_Witness ==
    /\ op \in GameOps
    /\ \E i \in 1..Len(PreObjs) :
          /\ AsPlayer(PreObjs[i]) /\ PreObjs[i].alive
          /\ PreObjs[i].oid # pre.engine.player_oid
          /\ PreObjs[i].dx < 0 /\ PreObjs[i].dy > 0
          /\ BlitsOf(PreObjs[i].oid)[1].image = "enemy2.png"

----------------------------------------------------------------------------
(* Properties of the status overlay (SpecStatus).                          *)

\* An id the status overlay draws a line for.
Resolves(oid) == oid > 0 /\ HasObject(PreObjs, oid)

\* C7: paint_game draws status lines only when control.show_info is set, and
\* then one left-aligned line for the player's id and one for the opponent's
\* id, each only if the id is > 0 and resolves to an object; every status
\* line comes after the draw calls of all objects.
C7_OneLinePerResolvedId ==
    op \in GameOps =>
        /\ [k \in 1..Len(StatusLines) |-> StatusLines[k].text[1]] =
              (IF pre.control.show_info /\ Resolves(pre.engine.player_oid)
               THEN <<"Me: ">> ELSE <<>>) \o
              (IF pre.control.show_info /\ Resolves(pre.engine.opponent_oid)
               THEN <<"Opponent: ">> ELSE <<>>)
        /\ \A a, b \in 1..Len(calls) :
              (calls[a].fn = "text_left" /\ calls[b].src # 0) => b < a

\* A frame with the overlay on, a player that resolves and an opponent id
\* that resolves to nothing: one line, after the objects.
C7_Witness ==
    /\ op = "paint_game"
    /\ pre.control.show_info
    /\ Resolves(pre.engine.player_oid)
    /\ pre.engine.opponent_oid > 0
    /\ ~Resolves(pre.engine.opponent_oid)
    /\ Len(PreObjs) > 0
    /\ Len(StatusLines) = 1
    /\ calls[Len(calls)].fn = "text_left"

=============================================================================
